---- MODULE Spec2Model ----
(***************************************************************************)
(* Model of app.py, the manufacturing diagnostic page.                     *)
(*                                                                         *)
(* The page is a script that is run again from the top whenever a widget   *)
(* changes: without an uploaded file it stops (st.stop), with one it reads *)
(* the table, reads the role -> column select boxes, and computes the      *)
(* KPIs, their scores, the composite score, the advisory tips and the      *)
(* grouped breakdowns.  The state is the uploaded table, the select boxes  *)
(* and what the last run computed.                                         *)
(*                                                                         *)
(* Numbers.  Python's None is <<>>.  A float is <<n, d>>, d > 0: the       *)
(* double nearest to the fraction n / d, kept in lowest terms.  The sums,  *)
(* differences and products of the page are taken on whole numbers and are *)
(* exact, and a quotient of two of them is correctly rounded, so the       *)
(* fraction names the float exactly.  The three non-finite results of a    *)
(* float division by zero are <<1, 0>> (inf), <<-1, 0>> (-inf) and         *)
(* <<0, 0>> (nan).  The tables of the model hold finite numbers, so its    *)
(* totals and KPIs are finite; the scorers and the tabs are applied to     *)
(* the non-finite floats on their own.  The composite score alone is a    *)
(* chain of rounded operations on decimals that are no doubles; it is      *)
(* <<n, d, k>>, the double k places above the double nearest to n / d.  A  *)
(* score is <<100>>, <<70>>, <<40>> or None.                               *)
(*                                                                         *)
(* Tables.  A cell of an uploaded file is a whole number, a date, or other *)
(* text.  load_df reads a CSV file with read_csv and any other file with   *)
(* read_excel; the two differ in what a column of mixed cells holds        *)
(* (strings from a CSV, the cells' own values from a workbook) and in the  *)
(* dtype of a column of dates (strings from a CSV, datetime64 from a       *)
(* workbook).  A date is a moment a whole number of milliseconds after the *)
(* epoch, the resolution of a workbook's date cells, so that its count of  *)
(* nanoseconds stays within the integers of the model (the product of two  *)
(* such counts, inventory and unit cost both set to workbook date columns, *)
(* does not; it takes two stray select boxes).                             *)
(***************************************************************************)
EXTENDS Integers, Sequences, FiniteSets, TLC

VARIABLES uploaded, df, col, totals, kpi, scores, total_score, tips,
          risk_rows, by_item, by_line, call

vars == <<uploaded, df, col, totals, kpi, scores, total_score, tips,
          risk_rows, by_item, by_line, call>>

\* Bounds of the model.
MaxRows == 2
MaxGrid == 5
MaxPct == 100
MaxStray == 0

(***************************************************************************)
(* Values                                                                  *)
(***************************************************************************)
None == <<>>

Abs(x) == IF x < 0 THEN -x ELSE x

RECURSIVE GCD(_, _)
GCD(a, b) == IF b = 0 THEN a ELSE GCD(b, a % b)

\* The fraction n / d (d # 0) in lowest terms with a positive denominator.
Reduce(n, d, g) == <<n \div g, d \div g>>
Rat(n, d) ==
    IF d < 0 THEN Reduce(-n, -d, GCD(Abs(n), Abs(d)))
    ELSE Reduce(n, d, GCD(Abs(n), Abs(d)))

Float(n) == <<n, 1>>

Inf == <<1, 0>>
NegInf == <<-1, 0>>
NaN == <<0, 0>>

IsFinite(x) == x # None /\ x[2] > 0

Add(a, b) == Rat(a[1] * b[2] + b[1] * a[2], a[2] * b[2])
Sub(a, b) == Rat(a[1] * b[2] - b[1] * a[2], a[2] * b[2])
Mul(a, b) == Rat(a[1] * b[1], a[2] * b[2])
\* Python's a / b on floats with b # 0.
Div(a, b) == Rat(a[1] * b[2], a[2] * b[1])

\* Python's a < b, a <= b, a > b, a >= b on floats: every comparison with
\* nan is False, and -inf < every finite float < inf.
Lt(a, b) ==
    /\ a # NaN
    /\ b # NaN
    /\ IF a[2] = 0 /\ b[2] = 0 THEN a[1] < b[1] ELSE a[1] * b[2] < b[1] * a[2]
Leq(a, b) ==
    /\ a # NaN
    /\ b # NaN
    /\ IF a[2] = 0 /\ b[2] = 0 THEN a[1] <= b[1] ELSE a[1] * b[2] <= b[1] * a[2]
Gt(a, b) == Lt(b, a)
Geq(a, b) == Leq(b, a)

\* Element-wise division of two float columns (pandas / numpy): a zero
\* divisor gives inf, -inf or nan and raises nothing.
SeriesDiv(a, b) ==
    IF b[1] # 0 THEN Div(a, b)
    ELSE IF a[1] > 0 THEN Inf
    ELSE IF a[1] < 0 THEN NegInf
    ELSE NaN

(***************************************************************************)
(* Tables and select boxes                                                 *)
(***************************************************************************)
\* The first option of every select box: "(없음)", no column.
NONE == "(none)"

\* The cells of a file and of a DataFrame: the integer v (0 <= v < 1000),
\* the date v milliseconds after the epoch (v >= 1), and a text that is
\* neither.  NumStr and DateStr are the strings an object column of
\* read_csv holds in place of a number and of a date.
Num(v) == <<"num", v>>
Date(v) == <<"date", v>>
Text(v) == <<"text", v>>
NumStr(v) == <<"numstr", v>>
DateStr(v) == <<"datestr", v>>

\* The nanoseconds of a millisecond: datetime64[ns] counts nanoseconds.
NsPerMs == 1000000

Roles == {"sales", "cogs", "fixed", "labor", "prod_qty", "good_qty",
          "defect_qty", "due", "ship", "inventory", "unit_cost", "item",
          "line"}

\* df[c]: the cells of column c, top to bottom.
Column(d, c) == [i \in 1..Len(d.rows) |-> d.rows[i][c]]

cols(d) == {d.columns[i] : i \in 1..Len(d.columns)}

\* The dtype of a column: int64 when every cell is an integer,
\* datetime64[ns] when every cell is a date, object otherwise.
IsNumeric(s) == \A i \in 1..Len(s) : s[i][1] = "num"
IsDatetime(s) == Len(s) > 0 /\ \A i \in 1..Len(s) : s[i][1] = "date"

\* pd.read_csv: a column of integers only is an int64 column; any other
\* column is an object column of the cells' strings.
AsString(cell) ==
    IF cell[1] = "num" THEN NumStr(cell[2])
    ELSE IF cell[1] = "date" THEN DateStr(cell[2])
    ELSE cell

read_csv(file) ==
    LET int64 == {c \in cols(file) : IsNumeric(Column(file, c))}
    IN  [columns |-> file.columns,
         rows |-> [i \in 1..Len(file.rows) |->
                    [c \in cols(file) |->
                        IF c \in int64 THEN file.rows[i][c]
                        ELSE AsString(file.rows[i][c])]]]

\* pd.read_excel: every cell keeps its own value; a column of dates only is
\* a datetime64 column.
read_excel(file) == [columns |-> file.columns, rows |-> file.rows]

load_df(file) ==
    IF file.kind = "csv" THEN read_csv(file) ELSE read_excel(file)

\* pd.to_numeric(s, errors="coerce"): an integer and a numeric string are
\* their number; a datetime64 column is viewed as its int64 nanoseconds;
\* every other cell (a date string, a date in an object column, a text)
\* becomes NaN.
to_num(s) ==
    [i \in 1..Len(s) |->
        IF s[i][1] \in {"num", "numstr"} THEN Float(s[i][2])
        ELSE IF IsDatetime(s) THEN Float(s[i][2] * NsPerMs)
        ELSE NaN]

fillna0(s) == [i \in 1..Len(s) |-> IF s[i] = NaN THEN Float(0) ELSE s[i]]

RECURSIVE SeriesSum(_)
SeriesSum(s) ==
    IF Len(s) = 0 THEN Float(0) ELSE Add(Head(s), SeriesSum(Tail(s)))

safe_sum(d, c) ==
    IF c = NONE THEN None ELSE SeriesSum(fillna0(to_num(Column(d, c))))

\* Variant of safe_ratio: a zero denominator gives 0 instead of None.
safe_ratio_zero(n, d) ==
    IF n = None \/ d = None THEN None
    ELSE IF d = Float(0) THEN Float(0)
    ELSE Div(n, d)

safe_ratio(n, d) ==
    IF n = None \/ d = None \/ d = Float(0) THEN None ELSE Div(n, d)

(***************************************************************************)
(* Threshold scorer and traffic light                                      *)
(***************************************************************************)
Score(n) == <<n>>

\* Higher is better.
score_by_threshold(value, good, warn) ==
    IF value = None THEN None
    ELSE IF Geq(value, good) THEN Score(100)
    ELSE IF Geq(value, warn) THEN Score(70)
    ELSE Score(40)

\* Lower is better.
score_by_inverse_threshold(value, good, warn) ==
    IF value = None THEN None
    ELSE IF Leq(value, good) THEN Score(100)
    ELSE IF Leq(value, warn) THEN Score(70)
    ELSE Score(40)

traffic_light(score) ==
    IF score = None THEN "white"
    ELSE IF score[1] >= 85 THEN "green"
    ELSE IF score[1] >= 60 THEN "orange"
    ELSE "red"

(***************************************************************************)
(* KPI calculation (one run of the script on table d with select boxes c)  *)
(***************************************************************************)
\* Variant of gross: an unset cogs counts as 0, as in op_profit.
gross_lenient(sales, cogs) ==
    IF sales = None THEN None
    ELSE IF cogs = None THEN sales
    ELSE Sub(sales, cogs)

gross(sales, cogs) ==
    IF sales = None \/ cogs = None THEN None ELSE Sub(sales, cogs)

\* Variant of op_profit: an unset cost makes the profit unavailable, as in
\* gross.
op_profit_strict(sales, cogs, fixed, labor) ==
    IF sales = None \/ cogs = None \/ fixed = None \/ labor = None THEN None
    ELSE Sub(Sub(Sub(sales, cogs), fixed), labor)

op_profit(sales, cogs, fixed, labor) ==
    IF sales = None THEN None
    ELSE LET p1 == IF cogs # None THEN Sub(sales, cogs) ELSE sales
             p2 == IF fixed # None THEN Sub(p1, fixed) ELSE p1
         IN  IF labor # None THEN Sub(p2, labor) ELSE p2

\* pd.to_datetime(s, errors="coerce").  A timestamp is <<ns>>, the
\* nanoseconds after the epoch.  A date and a date string are their moment;
\* an integer, of an int64 or of an object column, is that many
\* nanoseconds after the epoch; a numeric string below 1000 is no date and,
\* like any other text, becomes NaT (None).
to_datetime(s) ==
    [i \in 1..Len(s) |->
        IF s[i][1] \in {"date", "datestr"} THEN <<s[i][2] * NsPerMs>>
        ELSE IF s[i][1] = "num" THEN <<s[i][2]>>
        ELSE None]

\* Variant of on_time_rate: shipping on the due date counts as late.
on_time_rate_strict(d, c) ==
    IF c.due # NONE /\ c.ship # NONE
    THEN LET due == to_datetime(Column(d, c.due))
             ship == to_datetime(Column(d, c.ship))
             valid == {i \in 1..Len(d.rows) : due[i] # None /\ ship[i] # None}
             hit == {i \in valid : ship[i][1] < due[i][1]}
         IN  IF valid # {} THEN Rat(Cardinality(hit), Cardinality(valid))
             ELSE None
    ELSE None

on_time_rate(d, c) ==
    IF c.due # NONE /\ c.ship # NONE
    THEN LET due == to_datetime(Column(d, c.due))
             ship == to_datetime(Column(d, c.ship))
             valid == {i \in 1..Len(d.rows) : due[i] # None /\ ship[i] # None}
             hit == {i \in valid : ship[i][1] <= due[i][1]}
         IN  IF valid # {} THEN Rat(Cardinality(hit), Cardinality(valid))
             ELSE None
    ELSE None

inventory_value(d, c) ==
    IF c.inventory # NONE /\ c.unit_cost # NONE
    THEN LET inv == fillna0(to_num(Column(d, c.inventory)))
             uc == fillna0(to_num(Column(d, c.unit_cost)))
         IN  SeriesSum([i \in 1..Len(d.rows) |-> Mul(inv[i], uc[i])])
    ELSE None

\* The column totals of lines 125-128, 142-144 and 162-166.
Totals(d, c) ==
    [sales |-> safe_sum(d, c.sales), cogs |-> safe_sum(d, c.cogs),
     fixed |-> safe_sum(d, c.fixed), labor |-> safe_sum(d, c.labor),
     prod_qty |-> safe_sum(d, c.prod_qty), good_qty |-> safe_sum(d, c.good_qty),
     defect_qty |-> safe_sum(d, c.defect_qty),
     inventory_value |-> inventory_value(d, c)]

\* The six KPIs, from the totals t and the two date columns.
KPI(t, d, c) ==
    [gross_margin |-> safe_ratio(gross(t.sales, t.cogs), t.sales),
     op_margin |-> safe_ratio(op_profit(t.sales, t.cogs, t.fixed, t.labor), t.sales),
     defect_rate |-> safe_ratio(t.defect_qty, t.prod_qty),
     yield_rate |-> safe_ratio(t.good_qty, t.prod_qty),
     on_time_rate |-> on_time_rate(d, c),
     inv_to_sales |-> safe_ratio(t.inventory_value, t.sales)]

(***************************************************************************)
(* Scores, composite score, risk list                                      *)
(***************************************************************************)
\* The keys of the scores dict, in its insertion order.
KpiOrder == <<"gm", "om", "def", "yield", "otd", "inv">>
KpiNames == {KpiOrder[i] : i \in 1..Len(KpiOrder)}

score_gm(v) == score_by_threshold(v, Rat(25, 100), Rat(15, 100))
score_om(v) == score_by_threshold(v, Rat(10, 100), Rat(5, 100))
score_def(v) == score_by_inverse_threshold(v, Rat(1, 100), Rat(3, 100))
score_yield(v) == score_by_threshold(v, Rat(98, 100), Rat(95, 100))
score_otd(v) == score_by_threshold(v, Rat(95, 100), Rat(90, 100))
score_inv(v) ==
    IF v # None THEN score_by_inverse_threshold(v, Rat(15, 100), Rat(30, 100))
    ELSE None

Scores(k) ==
    [gm |-> score_gm(k.gross_margin), om |-> score_om(k.op_margin),
     def |-> score_def(k.defect_rate), yield |-> score_yield(k.yield_rate),
     otd |-> score_otd(k.on_time_rate), inv |-> score_inv(k.inv_to_sales)]

(***************************************************************************)
(* The composite score is the one place where the binary rounding of       *)
(* Python's floats shows, so its arithmetic is carried out as the machine  *)
(* does it.  A double near the decimal h / 100 is the pair <<h, e>>: the   *)
(* number h / 100 + e * U0, where U0 = 2^-56 / 25.  Every double from 1/16 *)
(* to 128 is such a pair, with e within a few thousand for the values met  *)
(* here.  Each operation takes the exact result and rounds it to the       *)
(* nearest double, ties to an even mantissa (IEEE 754).                    *)
(***************************************************************************)
\* 2^n for n in 0..12.
Pow2(n) == <<1, 2, 4, 8, 16, 32, 64, 128, 256, 512, 1024, 2048, 4096>>[n + 1]

\* 2^n modulo 25: the powers of 2 repeat with period 20.
Pow2Mod25(n) ==
    <<1, 2, 4, 8, 16, 7, 14, 3, 6, 12, 24, 23, 21, 17, 9, 18, 11, 22, 19, 13>>[(n % 20) + 1]

Square(x, m) == (x * x) % m

\* 2^s modulo m, by squaring.
RECURSIVE Pow2Mod(_, _)
Pow2Mod(s, m) ==
    IF s = 0 THEN 1 % m
    ELSE IF s % 2 = 1 THEN (2 * Square(Pow2Mod(s \div 2, m), m)) % m
    ELSE Square(Pow2Mod(s \div 2, m), m)

\* h / 100 + e * U0 >= 2^m, for m in -4..7.
AtLeastPow2(h, e, m) ==
    IF m >= 0
    THEN h > 100 * Pow2(m) \/ (h = 100 * Pow2(m) /\ e >= 0)
    ELSE h * Pow2(-m) > 100 \/ (h * Pow2(-m) = 100 /\ e >= 0)

\* The binade of a positive double: n with 2^n <= x < 2^(n + 1).
RECURSIVE BinadeFrom(_, _, _)
BinadeFrom(h, e, n) ==
    IF AtLeastPow2(h, e, n + 1) THEN BinadeFrom(h, e, n + 1) ELSE n

Binade(h, e) ==
    IF AtLeastPow2(h, e, 2) THEN BinadeFrom(h, e, 2) ELSE BinadeFrom(h, e, -4)

\* (h * 2^54 + e) modulo m = 25 * 2^i.
Residue(h, e, i, m) == ((h % m) * (Pow2(i) * Pow2Mod25(54 - i)) + e) % m

\* The number h / 100 + e * U0, which lies t above a multiple of ulp, rounded
\* to the nearest multiple, a tie to the even one; t2 is t counted from an
\* even multiple.
RoundTo(h, e, ulp, t, t2) ==
    IF 2 * t > ulp \/ (2 * t = ulp /\ t2 >= ulp) THEN <<h, e - t + ulp>> ELSE <<h, e - t>>

\* In units of U0 the number is h * 2^54 + e and the doubles of its binade n
\* are the multiples of ulp = 25 * 2^j, j = n + 4.
RoundAt(h, e, j, ulp) ==
    RoundTo(h, e, ulp, Residue(h, e, j, ulp), Residue(h, e, j + 1, 2 * ulp))

RoundIn(h, e, j) == RoundAt(h, e, j, 25 * Pow2(j))

\* The exact number h / 100 + e * U0 rounded to the nearest double.
RoundDouble(h, e) ==
    IF h = 0 /\ e = 0 THEN <<0, 0>> ELSE RoundIn(h, e, Binade(h, e) + 4)

\* A decimal literal with two places, such as 0.22.
Literal(h) == RoundDouble(h, 0)

\* Python's a + b on floats.
FloatAdd(a, b) == RoundDouble(a[1] + b[1], a[2] + b[2])

\* Python's v * w for an int v and a float w.
IntTimesFloat(v, w) == RoundDouble(v * w[1], v * w[2])

Sign(x) == IF x > 0 THEN 1 ELSE IF x < 0 THEN -1 ELSE 0

\* x / y rounded to an integer; at a tie dir decides: -1 down, 1 up, 0 to
\* the even mantissa, the mantissa below 0 being odd iff godd.
RoundQuotient(x, y, dir, godd) ==
    IF (2 * x + y) % (2 * y) # 0 THEN (2 * x + y) \div (2 * y)
    ELSE IF dir < 0 THEN ((2 * x + y) \div (2 * y)) - 1
    ELSE IF dir > 0 THEN (2 * x + y) \div (2 * y)
    ELSE IF ((((2 * x + y) \div (2 * y)) % 2) = 1) # godd
         THEN ((2 * x + y) \div (2 * y)) - 1
    ELSE (2 * x + y) \div (2 * y)

\* The quotient in binade n, in units of its ulp 2^(n - 52): it is
\* g + r / hd + t / (hd^2 * 2^(n + 2)) with g an integer, up to a factor
\* within 2^-50 of 1 on the last term, which only decides a tie.
DivideIn(hn, hd, ed, t, n, r, godd, g) ==
    <<hn \div g, hd \div g,
      RoundQuotient(r * hd * Pow2(n + 2) + t, hd * hd * Pow2(n + 2),
                    -(Sign(t) * Sign(ed)), godd)
        - RoundQuotient(r, hd, 0, godd)>>

DivideAt(hn, hd, ed, t, n) ==
    DivideIn(hn, hd, ed, t, n,
             ((hn % hd) * Pow2Mod(52 - n, hd)) % hd,
             ((hn % (2 * hd)) * Pow2Mod(52 - n, 2 * hd)) % (2 * hd) >= hd,
             GCD(hn, hd))

\* The binade of hn / hd >= 1, counted from n.
RECURSIVE QuotientBinade(_, _, _)
QuotientBinade(hn, hd, n) ==
    IF hn >= hd * Pow2(n + 1) THEN QuotientBinade(hn, hd, n + 1) ELSE n

\* The quotient is just below a power of two when the decimals' quotient is
\* that power and the error term t is negative.
DivideFrom(hn, hd, ed, t, n) ==
    IF hn = hd * Pow2(n) /\ t < 0 THEN DivideAt(hn, hd, ed, t, n - 1)
    ELSE DivideAt(hn, hd, ed, t, n)

\* Python's a / b on two positive floats whose quotient is at least 1.  The
\* result is <<n, d, k>>: the double k places above (below, for k < 0) the
\* double nearest to the fraction n / d of the two decimals.
FloatDiv(a, b) ==
    DivideFrom(a[1], b[1], b[2], a[2] * b[1] - a[1] * b[2],
               QuotientBinade(a[1], b[1], 0))

\* The weights 0.22, 0.22, 0.18, 0.18, 0.12, 0.08.
weights ==
    [gm |-> Literal(22), om |-> Literal(22), def |-> Literal(18),
     yield |-> Literal(18), otd |-> Literal(12), inv |-> Literal(8)]

\* The keys with a score, in dict order.
weighted_items(sc) == SelectSeq(KpiOrder, LAMBDA k : sc[k] # None)

\* Python's sum(...) of floats: from the int 0, left to right, each partial
\* sum rounded.
RECURSIVE SumOver(_, _, _)
SumOver(acc, ks, f) ==
    IF Len(ks) = 0 THEN acc
    ELSE SumOver(FloatAdd(acc, f[Head(ks)]), Tail(ks), f)

\* sum(v * w) / sum(w) over the items, when there is one.
total_score_over(items, vw) ==
    IF Len(items) > 0
    THEN FloatDiv(SumOver(<<0, 0>>, items, vw), SumOver(<<0, 0>>, items, weights))
    ELSE None

total_score_of(sc) ==
    total_score_over(weighted_items(sc),
                     [k \in KpiNames |->
                         IF sc[k] = None THEN <<0, 0>>
                         ELSE IntTimesFloat(sc[k][1], weights[k])])

risk_row(k, v) ==
    IF v = None THEN <<>>
    ELSE IF v[1] < 60 THEN << <<k, "red">> >>
    ELSE IF v[1] < 85 THEN << <<k, "orange">> >>
    ELSE <<>>

RECURSIVE risk_list(_, _)
risk_list(ks, sc) ==
    IF Len(ks) = 0 THEN <<>>
    ELSE risk_row(Head(ks), sc[Head(ks)]) \o risk_list(Tail(ks), sc)

risk_rows_of(sc) == risk_list(KpiOrder, sc)

(***************************************************************************)
(* Advisory rules: one ordered tip list per tab                            *)
(***************************************************************************)
\* One rule of a tab: its tip is appended when its condition holds.
Rule(fires, tip) == IF fires THEN <<tip>> ELSE <<>>

\* The positive-status tip is shown when no rule fired.
OrFallback(t, tip) == IF t = <<>> THEN <<tip>> ELSE t

tips_profit(gross_margin, op_margin) ==
    OrFallback(Rule(gross_margin # None /\ Lt(gross_margin, Rat(15, 100)), "cost_structure")
               \o Rule(op_margin # None /\ Lt(op_margin, Rat(5, 100)), "fixed_cost"),
               "profit_ok")

\* Variant of tips_quality: the second rule is tried only when the first
\* did not fire (elif).
tips_quality_elif(defect_rate, yield_rate) ==
    IF defect_rate # None /\ Gt(defect_rate, Rat(3, 100)) THEN <<"defect_pareto">>
    ELSE IF yield_rate # None /\ Lt(yield_rate, Rat(95, 100)) THEN <<"process_control">>
    ELSE <<"quality_ok">>

tips_quality(defect_rate, yield_rate) ==
    OrFallback(Rule(defect_rate # None /\ Gt(defect_rate, Rat(3, 100)), "defect_pareto")
               \o Rule(yield_rate # None /\ Lt(yield_rate, Rat(95, 100)), "process_control"),
               "quality_ok")

tips_delivery(otd, inv_to_sales) ==
    OrFallback(Rule(otd # None /\ Lt(otd, Rat(90, 100)), "lead_time")
               \o Rule(inv_to_sales # None /\ Gt(inv_to_sales, Rat(30, 100)), "turnover"),
               "delivery_ok")

Tips(k) ==
    [profit |-> tips_profit(k.gross_margin, k.op_margin),
     quality |-> tips_quality(k.defect_rate, k.yield_rate),
     delivery |-> tips_delivery(k.on_time_rate, k.inv_to_sales)]

(***************************************************************************)
(* Grouped breakdowns                                                      *)
(***************************************************************************)
\* groupby(key).sum() of two coerced columns, then num / den per group.
\* A NaN cell adds nothing to its group's sum.
group_ratio(d, key, num, den) ==
    LET k == Column(d, key)
        n == fillna0(to_num(Column(d, num)))
        m == fillna0(to_num(Column(d, den)))
        part(g, s) == SeriesSum([i \in 1..Len(s) |-> IF k[i] = g THEN s[i] ELSE Float(0)])
        sums == {[key |-> g, num |-> part(g, n), den |-> part(g, m)] :
                    g \in {k[i] : i \in 1..Len(k)}}
    IN  {[key |-> r.key, num |-> r.num, den |-> r.den,
          ratio |-> SeriesDiv(r.num, r.den)] : r \in sums}

\* Per item: defect sum / produced sum.
breakdown_item(d, c) ==
    IF c.item # NONE /\ c.prod_qty # NONE /\ c.defect_qty # NONE
    THEN [shown |-> TRUE, groups |-> group_ratio(d, c.item, c.defect_qty, c.prod_qty)]
    ELSE [shown |-> FALSE, groups |-> {}]

\* Per line: good sum / produced sum.
breakdown_line(d, c) ==
    IF c.line # NONE /\ c.good_qty # NONE /\ c.prod_qty # NONE
    THEN [shown |-> TRUE, groups |-> group_ratio(d, c.line, c.good_qty, c.prod_qty)]
    ELSE [shown |-> FALSE, groups |-> {}]

(***************************************************************************)
(* The page: state before an upload, and one rerun of the script           *)
(***************************************************************************)
NoFile == [columns |-> <<>>, rows |-> <<>>]
NoCol == [r \in Roles |-> NONE]
NoFields(names) == [n \in names |-> None]
NoTotals == NoFields({"sales", "cogs", "fixed", "labor", "prod_qty",
                      "good_qty", "defect_qty", "inventory_value"})
NoKpi == NoFields({"gross_margin", "op_margin", "defect_rate", "yield_rate",
                   "on_time_rate", "inv_to_sales"})
NoBreakdown == [shown |-> FALSE, groups |-> {}]
Idle == [fn |-> "idle", args |-> <<>>, done |-> FALSE, result |-> <<>>]

\* Nothing is uploaded: the script stops before it computes anything.
Stopped ==
    /\ uploaded = FALSE
    /\ df = NoFile
    /\ col = NoCol
    /\ totals = NoTotals
    /\ kpi = NoKpi
    /\ scores = NoFields(KpiNames)
    /\ total_score = None
    /\ tips = [profit |-> <<>>, quality |-> <<>>, delivery |-> <<>>]
    /\ risk_rows = <<>>
    /\ by_item = NoBreakdown
    /\ by_line = NoBreakdown

\* One run of the script from line 79 to the end.
Rerun(d, c) ==
    /\ totals' = Totals(d, c)
    /\ kpi' = KPI(totals', d, c)
    /\ scores' = Scores(kpi')
    /\ total_score' = total_score_of(scores')
    /\ tips' = Tips(kpi')
    /\ risk_rows' = risk_rows_of(scores')
    /\ by_item' = breakdown_item(d, c)
    /\ by_line' = breakdown_line(d, c)

(***************************************************************************)
(* Uploaded files of the model                                             *)
(***************************************************************************)
\* The rows over the given cells: in each column a cell of that column's
\* set.
Rows(cells) ==
    {r \in [DOMAIN cells -> UNION {cells[c] : c \in DOMAIN cells}] :
        \A c \in DOMAIN cells : r[c] \in cells[c]}

\* No sum, count or group of the page depends on the order of the rows, so
\* one table stands for all that hold the same rows: the one whose rows
\* follow a fixed order q.
RowOrder(R) ==
    CHOOSE q \in [1..Cardinality(R) -> R] :
        \A i, j \in 1..Cardinality(R) : q[i] = q[j] => i = j

Rank(q, r) == CHOOSE i \in DOMAIN q : q[i] = r

InOrder(rs, q) ==
    \A i \in 1..(Len(rs) - 1) : Rank(q, rs[i]) <= Rank(q, rs[i + 1])

\* Every file of the given kind ("csv", or "xlsx" for a workbook) with the
\* given header and 0..MaxRows rows over the given cells.
Files(kind, columns, cells) ==
    LET R == Rows(cells)
        q == RowOrder(R)
    IN  {[kind |-> kind, columns |-> columns, rows |-> rs] :
            rs \in {t \in UNION {[1..n -> R] : n \in 0..MaxRows} : InOrder(t, q)}}

FinFiles ==
    Files("csv", <<"F1", "F2">>,
          [F1 |-> {Num(100)},
           F2 |-> {Text(0), Num(85)}])

QualFiles ==
    Files("csv", <<"Q1", "Q2">>,
          [Q1 |-> {Num(100)},
           Q2 |-> {Text(0), Num(3)}])

InvFiles ==
    Files("csv", <<"N1", "N2">>,
          [N1 |-> {Num(3)},
           N2 |-> {Text(0), Num(40)}])

\* The date files come as CSV files and as workbooks; the number and text
\* cells of the other files read the same from either.
OtdCells ==
    [D1 |-> {Date(2)},
     D2 |-> {Text(0), Date(2), Date(3), Num(3)}]

OtdFiles ==
    Files("csv", <<"D1", "D2">>, OtdCells) \cup Files("xlsx", <<"D1", "D2">>, OtdCells)

GroupFiles ==
    Files("csv", <<"K", "G1", "G2">>,
          [K |-> {Text(1), Text(2)},
           G1 |-> {Text(0), Num(100)},
           G2 |-> {Num(3)}])

KpiFiles == FinFiles \cup QualFiles \cup InvFiles

\* The roles a file's columns are meant for.
Subject(d) ==
    IF d.columns = <<"F1", "F2">> THEN {"sales", "cogs", "fixed", "labor"}
    ELSE IF d.columns = <<"Q1", "Q2">> THEN {"prod_qty", "good_qty", "defect_qty"}
    ELSE IF d.columns = <<"N1", "N2">> THEN {"inventory", "unit_cost", "sales"}
    ELSE IF d.columns = <<"D1", "D2">> THEN {"due", "ship"}
    ELSE IF d.columns = <<"K", "G1", "G2">>
         THEN {"item", "line", "prod_qty", "good_qty", "defect_qty"}
    ELSE {}

\* The select boxes of mapping c that are set to a column of file d although
\* the file is not meant for their role.
Stray(d, c) == {r \in Roles \ Subject(d) : c[r] # NONE}

(***************************************************************************)
(* Actions of the page                                                     *)
(***************************************************************************)
Init == Stopped /\ call = Idle

\* The tables load_df reads from the given files.
Loaded(files) == {load_df(file) : file \in files}

\* A file is uploaded and read into table d: the script runs with every
\* select box at "(없음)".
Upload(frames) ==
    /\ ~uploaded
    /\ \E d \in frames :
        /\ uploaded' = TRUE
        /\ df' = d
        /\ col' = col
        /\ Rerun(d, col)
    /\ UNCHANGED call

\* The file is taken out of the uploader: the script stops at line 77, and
\* the select boxes, no longer drawn, are forgotten.
Remove ==
    /\ uploaded
    /\ uploaded' = FALSE
    /\ df' = NoFile
    /\ col' = NoCol
    /\ totals' = NoTotals
    /\ kpi' = NoKpi
    /\ scores' = NoFields(KpiNames)
    /\ total_score' = None
    /\ tips' = [profit |-> <<>>, quality |-> <<>>, delivery |-> <<>>]
    /\ risk_rows' = <<>>
    /\ by_item' = NoBreakdown
    /\ by_line' = NoBreakdown
    /\ UNCHANGED call

\* Another file with the same header is dropped on the uploader in place
\* of the current one.  A select box is identified by its label and its
\* options, so every box keeps its choice and the script runs on the new
\* table.  (A file with another header brings new select boxes, all at
\* "(없음)": the page is then as after Remove and Upload, which is how the
\* model takes that step.)
Replace(frames) ==
    /\ uploaded
    /\ \E d \in frames :
        /\ d.columns = df.columns
        /\ d # df
        /\ df' = d
        /\ col' = col
        /\ Rerun(d, col)
    /\ UNCHANGED <<uploaded, call>>

\* Any select box is set to any column of the table (or back to "(없음)"):
\* the script runs again.  The page puts no condition on the choice; the
\* model explores the mappings with at most MaxStray stray boxes.
Select ==
    /\ uploaded
    /\ \E r \in Roles, c \in cols(df) \cup {NONE} :
        /\ c # col[r]
        /\ col' = [col EXCEPT ![r] = c]
        /\ Cardinality(Stray(df, col')) <= MaxStray
        /\ Rerun(df, col')
    /\ UNCHANGED <<uploaded, df, call>>

KpiFrames == Loaded(KpiFiles)
OtdFrames == Loaded(OtdFiles)
GroupFrames == Loaded(GroupFiles)

UploadKpi == Upload(KpiFrames)
UploadDates == Upload(OtdFrames)
UploadGroup == Upload(GroupFrames)
ReplaceKpi == Replace(KpiFrames)
ReplaceDates == Replace(OtdFrames)
ReplaceGroup == Replace(GroupFrames)

Next == UploadKpi \/ Select \/ Remove \/ ReplaceKpi
Spec == Init /\ [][Next]_vars

NextDates == UploadDates \/ Select \/ Remove \/ ReplaceDates
SpecDates == Init /\ [][NextDates]_vars

NextGroup == UploadGroup \/ Select \/ Remove \/ ReplaceGroup
SpecGroup == Init /\ [][NextGroup]_vars

(***************************************************************************)
(* The scorer, the aggregator and the three diagnosis tabs on their own:   *)
(* the inputs are drawn in the initial state and one step applies the code *)
(***************************************************************************)
\* The floats that are no real number.  A KPI is one of them when a total
\* is: a sales total of inf gives the margins inf / inf = nan.
NonFinite == {NaN, Inf, NegInf}

\* Cutoffs of the scorers, and the values they and the tabs are applied to.
Cutoffs == {Rat(k, 20) : k \in -1..MaxGrid}
Grid == Cutoffs \cup NonFinite
PctVals == {Rat(k, 100) : k \in -1..MaxPct} \cup NonFinite
ScoreVals == {Score(100), Score(70), Score(40), None}

Request(fn, args) == [fn |-> fn, args |-> args, done |-> FALSE, result |-> <<>>]

Reply(result) ==
    /\ ~call.done
    /\ call' = [call EXCEPT !.done = TRUE, !.result = result]
    /\ UNCHANGED <<uploaded, df, col, totals, kpi, scores, total_score, tips,
                   risk_rows, by_item, by_line>>

ScoreAsc ==
    /\ call.fn = "score_by_threshold"
    /\ Reply(score_by_threshold(call.args[1], call.args[2], call.args[3]))

ScoreDesc ==
    /\ call.fn = "score_by_inverse_threshold"
    /\ Reply(score_by_inverse_threshold(call.args[1], call.args[2], call.args[3]))

\* What a tab shows for its two KPIs: the two scores with their lights,
\* the tip list, and the two KPIs' lines of the risk list.
Tab(k1, s1, k2, s2, t) ==
    [scores |-> <<s1, s2>>,
     lights |-> <<traffic_light(s1), traffic_light(s2)>>,
     tips |-> t,
     risk |-> risk_row(k1, s1) \o risk_row(k2, s2)]

TabProfit ==
    /\ call.fn = "tab_profit"
    /\ Reply(Tab("gm", score_gm(call.args[1]), "om", score_om(call.args[2]),
                 tips_profit(call.args[1], call.args[2])))

TabQuality ==
    /\ call.fn = "tab_quality"
    /\ Reply(Tab("def", score_def(call.args[1]), "yield", score_yield(call.args[2]),
                 tips_quality(call.args[1], call.args[2])))

TabDelivery ==
    /\ call.fn = "tab_delivery"
    /\ Reply(Tab("otd", score_otd(call.args[1]), "inv", score_inv(call.args[2]),
                 tips_delivery(call.args[1], call.args[2])))

Aggregate ==
    /\ call.fn = "total_score"
    /\ Reply(total_score_of(call.args[1]))

InitUnit ==
    /\ Stopped
    /\ \/ \E fn \in {"score_by_threshold", "score_by_inverse_threshold"},
              v \in Grid \cup {None}, g \in Cutoffs, w \in Cutoffs :
                call = Request(fn, <<v, g, w>>)
       \/ \E fn \in {"tab_profit", "tab_quality", "tab_delivery"},
              a \in PctVals \cup {None}, b \in PctVals \cup {None} :
                call = Request(fn, <<a, b>>)
       \/ \E sc \in [KpiNames -> ScoreVals] :
                call = Request("total_score", <<sc>>)
NextUnit ==
    ScoreAsc \/ ScoreDesc \/ TabProfit \/ TabQuality \/ TabDelivery \/ Aggregate
SpecUnit == InitUnit /\ [][NextUnit]_vars

(***************************************************************************)
(* Properties                                                              *)
(***************************************************************************)
IsScoreCall == call.done /\ call.fn \in {"score_by_threshold", "score_by_inverse_threshold"}
IsTabCall == call.done /\ call.fn \in {"tab_profit", "tab_quality", "tab_delivery"}
IsTotalCall == call.done /\ call.fn = "total_score"

\* C1 as stated: for every available value v the ascending scorer
\* (good > warn) returns 100 iff v >= good, 70 iff warn <= v < good, 40 iff
\* v < warn; the descending scorer (good < warn) returns 100 iff v <= good,
\* 70 iff good < v <= warn, 40 iff v > warn; the score is unavailable
\* exactly for an unavailable value, and is always one of 100, 70, 40,
\* unavailable.
C1_ThresholdScorer ==
    IsScoreCall =>
        LET v == call.args[1]
            good == call.args[2]
            warn == call.args[3]
            r == call.result
        IN  /\ r \in ScoreVals
            /\ (r = None) <=> (v = None)
            /\ (v # None /\ call.fn = "score_by_threshold" /\ Gt(good, warn)) =>
                /\ (r = Score(100)) <=> Geq(v, good)
                /\ (r = Score(70)) <=> (Geq(v, warn) /\ Lt(v, good))
                /\ (r = Score(40)) <=> Lt(v, warn)
            /\ (v # None /\ call.fn = "score_by_inverse_threshold" /\ Lt(good, warn)) =>
                /\ (r = Score(100)) <=> Leq(v, good)
                /\ (r = Score(70)) <=> (Gt(v, good) /\ Leq(v, warn))
                /\ (r = Score(40)) <=> Gt(v, warn)

RECURSIVE SetSum(_, _)
SetSum(S, f) ==
    IF S = {} THEN 0
    ELSE LET x == CHOOSE y \in S : TRUE IN f[x] + SetSum(S \ {x}, f)

Available(sc) == {k \in DOMAIN sc : sc[k] # None}

\* The weights in hundredths.
Hundredths == [k \in KpiNames |-> weights[k][1]]

\* total is unavailable when sc has no score; otherwise it is a float
\* <<n, d, k>> where n / d is the weighted average of the available scores
\* of sc and k, the rounding of the float arithmetic, is a few places at
\* most.
IsWeightedAverage(total, sc) ==
    LET avail == Available(sc)
        sw == [k \in avail |-> sc[k][1] * Hundredths[k]]
    IN  /\ (total = None) <=> (avail = {})
        /\ total # None =>
            /\ total[2] > 0
            /\ total[1] * SetSum(avail, Hundredths) = SetSum(avail, sw) * total[2]
            /\ Abs(total[3]) <= 2

\* s <= total and s >= total for a score s and a composite <<n, d, k>>.  A
\* score that differs from n / d differs from it by 1 / 100 at least, far
\* more than k places.
ScoreLeq(s, total) ==
    s * total[2] < total[1] \/ (s * total[2] = total[1] /\ total[3] >= 0)
ScoreGeq(s, total) ==
    s * total[2] > total[1] \/ (s * total[2] = total[1] /\ total[3] <= 0)

\* total lies between the least and the greatest available score of sc.
IsWithinScores(total, sc) ==
    \A k \in Available(sc) :
        /\ (\A j \in Available(sc) : sc[k][1] <= sc[j][1]) => ScoreLeq(sc[k][1], total)
        /\ (\A j \in Available(sc) : sc[k][1] >= sc[j][1]) => ScoreGeq(sc[k][1], total)

\* C2 as stated: the composite score is unavailable iff all six scores are;
\* otherwise it is sum(score * weight) / sum(weight) over the available
\* scores only, and lies between the least and the greatest available score.
C2_Composite ==
    IsTotalCall =>
        /\ IsWeightedAverage(call.result, call.args[1])
        /\ IsWithinScores(call.result, call.args[1])

\* r is what the claim says safe_ratio(n, d) returns.
IsSafeRatio(r, n, d) ==
    /\ (r = None) <=> (n = None \/ d = None \/ d = Float(0))
    /\ r # None =>
        /\ IsFinite(r)
        /\ r[1] * d[1] * n[2] = n[1] * d[2] * r[2]

\* C3: safe_ratio(n, d) is unavailable iff n or d is unavailable or d is
\* zero, and n / d otherwise; so every ratio KPI is unavailable (no
\* infinity) when its denominator total is zero or its role unset.
C3_SafeRatio ==
    uploaded =>
        /\ IsSafeRatio(kpi.defect_rate, totals.defect_qty, totals.prod_qty)
        /\ IsSafeRatio(kpi.yield_rate, totals.good_qty, totals.prod_qty)
        /\ IsSafeRatio(kpi.inv_to_sales, totals.inventory_value, totals.sales)
        /\ (col.prod_qty = NONE \/ totals.prod_qty = Float(0)) =>
            (kpi.defect_rate = None /\ kpi.yield_rate = None)
        /\ (col.sales = NONE \/ totals.sales = Float(0)) =>
            /\ kpi.gross_margin = None
            /\ kpi.op_margin = None
            /\ kpi.inv_to_sales = None
        /\ \A k \in DOMAIN kpi : kpi[k] # None => IsFinite(kpi[k])

\* A nonzero defect total over a zero produced total.
C3_Witness ==
    /\ uploaded
    /\ col.prod_qty # NONE
    /\ totals.prod_qty = Float(0)
    /\ totals.defect_qty # None
    /\ totals.defect_qty # Float(0)
    /\ kpi.defect_rate = None

\* The column a role is mapped to holds at least one cell and pd.to_numeric
\* makes a number of none of them: no cell is a number or a numeric string,
\* and the column is no datetime64 column.
NothingParses(r) ==
    /\ col[r] # NONE
    /\ Len(df.rows) > 0
    /\ \A i \in 1..Len(df.rows) : df.rows[i][col[r]][1] \notin {"num", "numstr"}
    /\ \E i \in 1..Len(df.rows) : df.rows[i][col[r]][1] # "date"

\* C4 as stated: a role that is unset, or mapped to a column none of whose
\* cells parses, gives an unavailable total, and the KPI and score that
\* depend on it are unavailable (defect_qty without a parseable cell:
\* defect_rate and its score unavailable).
C4_MissingInput ==
    uploaded =>
        /\ \A r \in DOMAIN totals \ {"inventory_value"} :
            (col[r] = NONE \/ NothingParses(r)) => totals[r] = None
        /\ (col.defect_qty = NONE \/ NothingParses("defect_qty")) =>
            (kpi.defect_rate = None /\ scores.def = None)

GroupRows == by_item.groups \cup by_line.groups

\* C5 as stated: a group whose summed denominator is zero gets an
\* unavailable ratio, and no group gets an infinite or not-a-number ratio.
C5_BreakdownZero ==
    \A g \in GroupRows :
        /\ g.den = Float(0) => g.ratio = None
        /\ g.ratio # None => IsFinite(g.ratio)

OrZero(r) == IF col[r] = NONE THEN Float(0) ELSE totals[r]

\* C6: op_margin is unavailable iff the sales role is unset or the sales
\* total is zero; otherwise it is (sales - c - f - l) / sales with each
\* unset cost role counted as 0.
C6_OpMargin ==
    uploaded =>
        /\ (kpi.op_margin = None) <=> (col.sales = NONE \/ totals.sales = Float(0))
        /\ kpi.op_margin # None =>
            Mul(kpi.op_margin, totals.sales) =
                Sub(Sub(Sub(totals.sales, OrZero("cogs")), OrZero("fixed")),
                    OrZero("labor"))

\* Sales and fixed cost are mapped, cogs is not: op_margin is available
\* while gross_margin is not.
C6_Witness ==
    /\ uploaded
    /\ col.sales # NONE
    /\ col.cogs = NONE
    /\ col.fixed # NONE
    /\ totals.fixed # Float(0)
    /\ kpi.op_margin # None
    /\ kpi.gross_margin = None

\* C7: gross_margin is unavailable whenever the sales or the cogs role is
\* unset; then its score is unavailable and the composite is the weighted
\* average of the other scores alone.  With both mapped and a nonzero sales
\* total it is (sales - cogs) / sales.
C7_GrossMargin ==
    uploaded =>
        /\ (col.sales = NONE \/ col.cogs = NONE) =>
            /\ kpi.gross_margin = None
            /\ scores.gm = None
            /\ IsWeightedAverage(total_score,
                                 [k \in KpiNames \ {"gm"} |-> scores[k]])
        /\ (col.sales # NONE /\ col.cogs # NONE /\ totals.sales # Float(0)) =>
            /\ kpi.gross_margin # None
            /\ Mul(kpi.gross_margin, totals.sales) = Sub(totals.sales, totals.cogs)

\* Sales is mapped and nonzero, cogs is not mapped, and the composite is
\* made of the other scores.
C7_Witness ==
    /\ uploaded
    /\ col.sales # NONE
    /\ col.cogs = NONE
    /\ totals.sales # Float(0)
    /\ kpi.gross_margin = None
    /\ total_score # None

\* The two rules of a tab, in rule order, as <<tip, fires>>, and the tab's
\* positive-status tip.
TabRules(fn, a, b) ==
    IF fn = "tab_profit"
    THEN << <<"cost_structure", a # None /\ Lt(a, <<3, 20>>)>>,
            <<"fixed_cost", b # None /\ Lt(b, <<1, 20>>)>> >>
    ELSE IF fn = "tab_quality"
    THEN << <<"defect_pareto", a # None /\ Gt(a, <<3, 100>>)>>,
            <<"process_control", b # None /\ Lt(b, <<19, 20>>)>> >>
    ELSE << <<"lead_time", a # None /\ Lt(a, <<9, 10>>)>>,
            <<"turnover", b # None /\ Gt(b, <<3, 10>>)>> >>

TabFallback(fn) ==
    IF fn = "tab_profit" THEN "profit_ok"
    ELSE IF fn = "tab_quality" THEN "quality_ok"
    ELSE "delivery_ok"

\* C8: for every pair of KPI values (available or not) each tab's tip list
\* is non-empty; it holds every tip whose rule fires, in rule order, both
\* when both fire, and exactly the positive-status tip iff none fires.
C8_AdvisoryRules ==
    IsTabCall =>
        LET rules == TabRules(call.fn, call.args[1], call.args[2])
            t == call.result.tips
            fired == SelectSeq(rules, LAMBDA x : x[2])
        IN  /\ Len(t) >= 1
            /\ Len(fired) > 0 =>
                /\ Len(t) = Len(fired)
                /\ \A i \in 1..Len(fired) : t[i] = fired[i][1]
            /\ (t = <<TabFallback(call.fn)>>) <=> (Len(fired) = 0)

\* Both quality rules fired.
C8_Witness ==
    /\ IsTabCall
    /\ call.fn = "tab_quality"
    /\ call.args[1] # None
    /\ call.args[2] # None
    /\ Gt(call.args[1], <<3, 100>>)
    /\ Lt(call.args[2], <<19, 20>>)
    /\ call.result.tips = <<"defect_pareto", "process_control">>

\* A cell pd.to_datetime reads as a date: a date, a date string, or an
\* integer (nanoseconds after the epoch).  A numeric string is none.
ParsesAsDate(cell) == cell[1] \in {"date", "datestr", "num"}

\* The moment a parsed cell stands for, in nanoseconds after the epoch.
Moment(cell) == IF cell[1] = "num" THEN cell[2] ELSE cell[2] * NsPerMs

\* Row i was shipped on or before its due date.
OnTime(i) == Moment(df.rows[i][col.ship]) <= Moment(df.rows[i][col.due])

BothParse(i) ==
    /\ ParsesAsDate(df.rows[i][col.due])
    /\ ParsesAsDate(df.rows[i][col.ship])

ValidRows ==
    IF col.due = NONE \/ col.ship = NONE THEN {}
    ELSE {i \in 1..Len(df.rows) : BothParse(i)}

OnTimeRows == {i \in ValidRows : OnTime(i)}

\* C9: on_time_rate is unavailable iff the due or the ship role is unset or
\* no row has both dates parseable; otherwise it is the number of rows with
\* both dates parseable and ship <= due over the number of rows with both
\* dates parseable.
C9_OnTimeRate ==
    uploaded =>
        /\ (kpi.on_time_rate = None) <=> (ValidRows = {})
        /\ kpi.on_time_rate # None =>
            kpi.on_time_rate[1] * Cardinality(ValidRows) =
                Cardinality(OnTimeRows) * kpi.on_time_rate[2]

\* Two rows with both dates: one shipped on its due date, one late.
C9_Witness ==
    /\ uploaded
    /\ Cardinality(ValidRows) = 2
    /\ kpi.on_time_rate = <<1, 2>>
    /\ \E i \in OnTimeRows : df.rows[i][col.ship] = df.rows[i][col.due]

\* The two KPIs of a tab, in the order of its rules.
TabKpis(fn) ==
    IF fn = "tab_profit" THEN <<"gm", "om">>
    ELSE IF fn = "tab_quality" THEN <<"def", "yield">>
    ELSE <<"otd", "inv">>

\* C10 as stated: for every KPI value a KPI's advisory rule fires iff the
\* KPI's score is 40, so a tab shows its positive-status tip iff neither of
\* its two scores is 40; a score of 70 is shown orange, is on the risk list
\* under its KPI, and leaves the rule silent.
C10_ScoreAdviceConsistency ==
    IsTabCall =>
        LET rules == TabRules(call.fn, None, None)
            r == call.result
            shown == {r.tips[i] : i \in 1..Len(r.tips)}
            listed == {r.risk[j] : j \in 1..Len(r.risk)}
        IN  /\ \A i \in 1..2 : (rules[i][1] \in shown) <=> (r.scores[i] = Score(40))
            /\ (TabFallback(call.fn) \in shown) <=>
                (r.scores[1] # Score(40) /\ r.scores[2] # Score(40))
            /\ \A i \in 1..2 :
                r.scores[i] = Score(70) =>
                    /\ r.lights[i] = "orange"
                    /\ <<TabKpis(call.fn)[i], "orange">> \in listed
                    /\ rules[i][1] \notin shown

====
